---- MODULE Spec2Model ----
(***************************************************************************)
(* Chain search of osm-longest-place-boundary-includes (src/main.rs).      *)
(*                                                                         *)
(* A Record is one CSV row "place P is inside boundary B".  main() groups  *)
(* the rows by place_id, drops the groups holding a self-named row, builds *)
(* a name lookup, seeds the working set with one-element chains and then   *)
(* repeatedly pops the longest chain and extends it.                       *)
(*                                                                         *)
(* Input assumption: the rows of one run have pairwise distinct            *)
(* (place_id, boundary_id), the identity that Record's Eq/Ord compare.     *)
(***************************************************************************)
EXTENDS Integers, Sequences, FiniteSets, TLC

VARIABLES
    input,               \* the rows that passed the place_type / empty-name filter
    points_in_boundary,  \* HashMap<u64, Vec<Record>>: place_id -> its rows
    place_names,         \* HashMap<&str, Vec<&Record>>: place name -> rows
    intermediate_chains, \* BTreeSet<(isize, isize, Vec<&Record>)>
    finished_chains,     \* HashMap<&Record, Vec<&Record>>
    num_steps_done,
    max_intermediate,
    max_steps,           \* the "don't go forever" ceiling
    ctrlc_pressed,
    chain,               \* the entry popped by the current iteration
    chain_place_dist,
    pc,                  \* position of main()
    exit_cause,          \* which break left the main loop
    constructed,         \* history: every chain ever inserted into the working set
    pruned,              \* history: entries removed by the clean up's retain
    discarded,           \* history: entries removed by the clean up's failsafe
    cleaned,             \* history: a memory clean up has run
    writes,              \* history: <<site, chain>> of every insert into finished_chains
    popped               \* history: every chain pop_first has returned

vars == <<input, points_in_boundary, place_names, intermediate_chains,
          finished_chains, num_steps_done, max_intermediate, max_steps,
          ctrlc_pressed, chain, chain_place_dist, pc, exit_cause,
          constructed, pruned, discarded, cleaned, writes, popped>>

(***************************************************************************)
(* Bounds of the model.                                                    *)
(***************************************************************************)
MaxCapacity == 3
MaxCeiling == 4
MaxPermuted == 3

\* let max_intermediate = 8_000_000
DefaultCapacity == 8000000
\* 1e12 as usize; written here as a value no run of the model comes near
\* (the model's integers are 32 bit wide)
DefaultCeiling == 1000000000
\* chain.len() >= longest_seen.len().saturating_sub(10)
RetentionMargin == 10

(***************************************************************************)
(* Records.  place_lat stands for the coordinates: all places of the model *)
(* lie on one meridian, at whole degrees of latitude.                      *)
(***************************************************************************)
Record(pid, pname, lat, bid, bname) ==
    [place_id |-> pid, place_name |-> pname, place_lat |-> lat,
     boundary_id |-> bid, boundary_name |-> bname]

\* Alpha in Beta, Beta in Gamma, Gamma in Alpha: a 3-cycle
AlphaInBeta == Record(1, "Alpha", 0, 12, "Beta")
BetaInGamma == Record(2, "Beta", 3, 13, "Gamma")
GammaInAlpha == Record(3, "Gamma", 5, 11, "Alpha")
\* the place Alpha again, in the boundary Gamma of BetaInGamma
AlphaInGamma == Record(1, "Alpha", 0, 13, "Gamma")
\* a second place called Beta, in a boundary that names no place
Beta2InDelta == Record(4, "Beta", 9, 14, "Delta")
\* a place inside a boundary of its own name, and the same place elsewhere
EpsInEps == Record(5, "Eps", 1, 15, "Eps")
EpsInBeta == Record(5, "Eps", 1, 12, "Beta")

SmallRecords ==
    {AlphaInBeta, BetaInGamma, GammaInAlpha, AlphaInGamma, Beta2InDelta,
     EpsInEps, EpsInBeta}

\* A walk N1 in N2, N2 in N3, ..., N12 in N13, N13 in N14, long enough for
\* the retention margin to bite, with two places called N13 at its end.
LongNames ==
    <<"N1", "N2", "N3", "N4", "N5", "N6", "N7", "N8", "N9", "N10", "N11",
      "N12", "N13", "N14">>
LongWalk ==
    {Record(100 + i, LongNames[i], i, 200 + i, LongNames[i + 1]) : i \in 1..12}
LongEnds ==
    {Record(113, "N13", 13, 213, "N14"), Record(114, "N13", 14, 214, "N14")}
\* a second place called N2, at the latitude of N1, in a boundary called N13
LongBranch == Record(115, "N2", 1, 215, "N13")
\* a second place called N3, at the latitude of N2, in a boundary called N13
LongBranch3 == Record(116, "N3", 2, 216, "N13")
LongRecords == LongWalk \cup LongEnds \cup {LongBranch, LongBranch3}

InputSets ==
    (SUBSET SmallRecords) \cup {LongRecords, LongRecords \ {LongBranch, LongBranch3}}
Capacities == (1..MaxCapacity) \cup {DefaultCapacity}
Ceilings == {MaxCeiling, DefaultCeiling}

(***************************************************************************)
(* impl Ord for Record, and the derived order of Vec and of tuples.        *)
(***************************************************************************)
RecordLess(r1, r2) ==
    \/ r1.place_id < r2.place_id
    \/ r1.place_id = r2.place_id /\ r1.boundary_id < r2.boundary_id

RecordEq(r1, r2) ==
    r1.place_id = r2.place_id /\ r1.boundary_id = r2.boundary_id

Min(a, b) == IF a < b THEN a ELSE b

\* lexicographic order of Vec<&Record>
VecLess(c1, c2) ==
    \/ \E i \in 1..Min(Len(c1), Len(c2)) :
          /\ \A j \in 1..(i - 1) : RecordEq(c1[j], c2[j])
          /\ RecordLess(c1[i], c2[i])
    \/ /\ Len(c1) < Len(c2)
       /\ \A j \in 1..Len(c1) : RecordEq(c1[j], c2[j])

\* order of the entries (neg_chain_len, chain_place_dist, chain)
EntryLess(e1, e2) ==
    \/ e1[1] < e2[1]
    \/ e1[1] = e2[1] /\ e1[2] < e2[2]
    \/ e1[1] = e2[1] /\ e1[2] = e2[2] /\ VecLess(e1[3], e2[3])

\* Last taking the least entry: pop_first where pop_last is meant
LastIsFirst(S) == CHOOSE e \in S : \A o \in S \ {e} : EntryLess(e, o)

First(S) == CHOOSE e \in S : \A o \in S \ {e} : EntryLess(e, o)
Last(S) == CHOOSE e \in S : \A o \in S \ {e} : EntryLess(o, e)

(***************************************************************************)
(* place_dist: the haversine distance of two places, rounded to metres.    *)
(* On one meridian it is the latitude difference times the length of a     *)
(* degree, 6 371 000 * pi / 180 = 111 194.927 m.                           *)
(***************************************************************************)
Abs(x) == IF x < 0 THEN -x ELSE x

haversine_dist_mm(th1, th2) == Abs(th1 - th2) * 111194927

place_dist(r1, r2) == (haversine_dist_mm(r1.place_lat, r2.place_lat) + 500) \div 1000

(***************************************************************************)
(* Helpers of main().                                                      *)
(***************************************************************************)
Empty == [x \in {} |-> x]

\* points_in_boundary.values().flat_map(|recs| recs.iter())
AllRecords(pib) == UNION {pib[p] : p \in DOMAIN pib}

\* points_in_boundary.entry(record.place_id).or_default().push(record)
GroupByPlaceId(rows) ==
    [p \in {r.place_id : r \in rows} |-> {r \in rows : r.place_id = p}]

\* the closure of points_in_boundary.retain
KeepGroup(records) == ~ \E r \in records : r.place_name = r.boundary_name

\* RemoveSelfNamed dropping the self-named rows only, not their whole group
RemoveSelfNamedRows(pib) ==
    LET kept(p) == {r \in pib[p] : r.place_name # r.boundary_name}
    IN  [p \in {q \in DOMAIN pib : kept(q) # {}} |-> kept(p)]

RemoveSelfNamed(pib) ==
    [p \in {q \in DOMAIN pib : KeepGroup(pib[q])} |-> pib[p]]

\* the fold building place_names
NameLookup(pib) ==
    [n \in {r.place_name : r \in AllRecords(pib)} |->
        {r \in AllRecords(pib) : r.place_name = n}]

\* Seeds without the place_names.contains_key test
SeedsOfAllRecords(pib, names) ==
    {<<-1, 0, <<rec>>>> : rec \in AllRecords(pib)}

\* the initial one-element chains
Seeds(pib, names) ==
    {<<-1, 0, <<rec>>>> : rec \in {r \in AllRecords(pib) : r.boundary_name \in DOMAIN names}}

\* IsLonger with >= for >: an equally long chain replaces the stored one
IsLongerOrEqual(finished, c) ==
    c[1] \notin DOMAIN finished \/ Len(c) >= Len(finished[c[1]])

\* finished_chains.get(chain[0]).map_or(true, |curr| chain.len() > curr.len())
IsLonger(finished, c) ==
    c[1] \notin DOMAIN finished \/ Len(c) > Len(finished[c[1]])

\* Insert under the last record of the chain instead of the first
InsertUnderLast(finished, c) ==
    [o \in DOMAIN finished \cup {c[Len(c)]} |->
        IF o = c[Len(c)] THEN c ELSE finished[o]]

\* finished_chains.insert(chain[0], chain)
Insert(finished, c) ==
    [o \in DOMAIN finished \cup {c[1]} |-> IF o = c[1] THEN c ELSE finished[o]]

KeepIfLonger(finished, c) ==
    IF IsLonger(finished, c) THEN Insert(finished, c) ELSE finished

\* InChain without the boundary_id comparison
InChainPlaceOnly(c, rec) ==
    \E i \in 1..Len(c) : c[i].place_id = rec.place_id

\* chain.iter().any(|r| r.place_id == rec.place_id || r.boundary_id == rec.boundary_id)
InChain(c, rec) ==
    \E i \in 1..Len(c) :
        c[i].place_id = rec.place_id \/ c[i].boundary_id = rec.boundary_id

\* Candidates taking the records named like the first place of the chain,
\* not like its last boundary
CandidatesOfFirstName(names, c) == names[c[1].place_name]

\* Candidates following one record only: a linear walk without forks
CandidatesNoFork(names, c) ==
    LET records == names[c[Len(c)].boundary_name]
    IN  {r \in records : \A o \in records \ {r} : RecordLess(o, r)}

\* the records of place_names.get(last_boundary_name)
Candidates(names, c) == names[c[Len(c)].boundary_name]

\* Extended with the distance of the last step alone as second key
ExtendedLastStepOnly(c, dist, rec) ==
    LET new_chain == Append(c, rec)
    IN  <<-Len(new_chain), -place_dist(c[Len(c)], rec), new_chain>>

\* the entry inserted for chain c (popped with distance key dist) and rec
Extended(c, dist, rec) ==
    LET new_chain == Append(c, rec)
    IN  <<-Len(new_chain),
          dist - place_dist(new_chain[Len(new_chain) - 1], new_chain[Len(new_chain)]),
          new_chain>>

\* the orders in which an iterator can yield the records of S
RECURSIVE Orders(_)
Orders(S) ==
    IF S = {} THEN {<<>>}
    ELSE UNION {{<<r>> \o o : o \in Orders(S \ {r})} : r \in S}

\* S from its lowest record up, and from its highest record down
RECURSIVE Ascending(_)
Ascending(S) ==
    IF S = {} THEN <<>>
    ELSE LET r == CHOOSE x \in S : \A y \in S \ {x} : RecordLess(x, y)
         IN  <<r>> \o Ascending(S \ {r})

RECURSIVE Descending(_)
Descending(S) ==
    IF S = {} THEN <<>>
    ELSE LET r == CHOOSE x \in S : \A y \in S \ {x} : RecordLess(y, x)
         IN  <<r>> \o Descending(S \ {r})

\* the iteration orders of points_in_boundary.values() that are explored:
\* all of them for up to MaxPermuted records, the two sorted ones beyond
IterationOrders(S) ==
    IF Cardinality(S) <= MaxPermuted THEN Orders(S)
    ELSE {Ascending(S), Descending(S)}

\* the seeding loop over the records in the order the HashMap yields them
RECURSIVE SeedLoop(_, _, _)
SeedLoop(order, names, inter) ==
    IF order = <<>> THEN inter
    ELSE LET rec == Head(order)
         IN  IF rec.boundary_name \in DOMAIN names
             THEN SeedLoop(Tail(order), names, inter \cup {<<-1, 0, <<rec>>>>})
             ELSE SeedLoop(Tail(order), names, inter)

\* CandidateLoop leaving the loop at the first record that would be a loop
RECURSIVE CandidateLoopBreaks(_, _, _, _, _)
CandidateLoopBreaks(c, dist, order, inter, finished) ==
    IF order = <<>> THEN <<inter, finished>>
    ELSE LET rec == Head(order)
         IN  IF ~InChain(c, rec)
             THEN CandidateLoopBreaks(c, dist, Tail(order),
                                      inter \cup {Extended(c, dist, rec)}, finished)
             ELSE <<inter, KeepIfLonger(finished, c)>>

\* for rec in records { ... }: the candidates of the popped chain c, in the
\* order the Vec of the name lookup holds them
RECURSIVE CandidateLoop(_, _, _, _, _)
CandidateLoop(c, dist, order, inter, finished) ==
    IF order = <<>> THEN <<inter, finished>>
    ELSE LET rec == Head(order)
         IN  IF ~InChain(c, rec)
             THEN CandidateLoop(c, dist, Tail(order),
                                inter \cup {Extended(c, dist, rec)}, finished)
             ELSE CandidateLoop(c, dist, Tail(order),
                                inter, KeepIfLonger(finished, c))

\* OverCapacity off by one: a set one entry over the capacity passes
OverCapacityByTwo(S, cap) == Cardinality(S) > cap + 1

\* while intermediate_chains.len() > max_intermediate
OverCapacity(S, cap) == Cardinality(S) > cap

\* Archive left out: the clean up discards without saving first
ArchiveNothing(S, finished) == finished

\* the "save what we have" loop of the memory clean up, in set order
RECURSIVE Archive(_, _)
Archive(S, finished) ==
    IF S = {} THEN finished
    ELSE LET e == First(S)
         IN  Archive(S \ {e},
                     IF Len(e[3]) > 1 /\ IsLonger(finished, e[3])
                     THEN Insert(finished, e[3]) ELSE finished)

SaturatingSub(a, b) == IF a > b THEN a - b ELSE 0

\* Retained with > for >=: a chain exactly the margin shorter is removed
RetainedStrictly(finished, e) ==
    \/ Len(e[3]) = 1
    \/ e[3][1] \notin DOMAIN finished
    \/ Len(e[3]) > SaturatingSub(Len(finished[e[3][1]]), RetentionMargin)

\* the closure of intermediate_chains.retain
Retained(finished, e) ==
    \/ Len(e[3]) = 1
    \/ e[3][1] \notin DOMAIN finished
    \/ Len(e[3]) >= SaturatingSub(Len(finished[e[3][1]]), RetentionMargin)

\* Failsafe popping nothing
FailsafeNothing(S, cap) == S

\* while intermediate_chains.len() > max_intermediate { pop_last() }
RECURSIVE Failsafe(_, _)
Failsafe(S, cap) ==
    IF Cardinality(S) > cap THEN Failsafe(S \ {Last(S)}, cap) ELSE S

\* Flush without the "if chain.len() == 1 { continue }"
RECURSIVE FlushSeedsToo(_, _)
FlushSeedsToo(S, finished) ==
    IF S = {} THEN finished
    ELSE LET e == First(S)
         IN  FlushSeedsToo(S \ {e}, KeepIfLonger(finished, e[3]))

\* the loop "Update the finished chains" after the main loop, in set order
RECURSIVE Flush(_, _)
Flush(S, finished) ==
    IF S = {} THEN finished
    ELSE LET e == First(S)
         IN  Flush(S \ {e},
                   IF Len(e[3]) = 1 THEN finished
                   ELSE KeepIfLonger(finished, e[3]))

\* CeilingReached with > for >=: one iteration too many
CeilingPassed(n, ceiling) == n > ceiling

\* if num_steps_done >= 1e12 as usize { break }
CeilingReached(n, ceiling) == n >= ceiling

Chains(S) == {e[3] : e \in S}

\* the chains that a step from finished chains old to new has inserted
Written(old, new) ==
    {new[o] : o \in {q \in DOMAIN new : q \notin DOMAIN old \/ new[q] # old[q]}}

(***************************************************************************)
(* The state machine of main().                                            *)
(***************************************************************************)
Init ==
    /\ input \in InputSets
    /\ max_intermediate \in Capacities
    /\ max_steps \in Ceilings
    /\ points_in_boundary = Empty
    /\ place_names = Empty
    /\ intermediate_chains = {}
    /\ finished_chains = Empty
    /\ num_steps_done = 0
    /\ ctrlc_pressed = FALSE
    /\ chain = <<>>
    /\ chain_place_dist = 0
    /\ pc = "read"
    /\ exit_cause = "none"
    /\ constructed = {}
    /\ pruned = {}
    /\ discarded = {}
    /\ cleaned = FALSE
    /\ writes = {}
    /\ popped = {}

\* for result in rdr.deserialize() { ... push(record) }
ReadRecords ==
    /\ pc = "read"
    /\ points_in_boundary' = GroupByPlaceId(input)
    /\ pc' = "retain"
    /\ UNCHANGED <<input, place_names, intermediate_chains, finished_chains,
                   num_steps_done, max_intermediate, max_steps, ctrlc_pressed,
                   chain, chain_place_dist, exit_cause, constructed, pruned, discarded,
                   cleaned, writes, popped>>

\* "Removing places which are inside a boundary with the same name"
RemovePlaces ==
    /\ pc = "retain"
    /\ points_in_boundary' = RemoveSelfNamed(points_in_boundary)
    /\ pc' = "lookup"
    /\ UNCHANGED <<input, place_names, intermediate_chains, finished_chains,
                   num_steps_done, max_intermediate, max_steps, ctrlc_pressed,
                   chain, chain_place_dist, exit_cause, constructed, pruned, discarded,
                   cleaned, writes, popped>>

\* "Generating name lookup"
GenerateNameLookup ==
    /\ pc = "lookup"
    /\ place_names' = NameLookup(points_in_boundary)
    /\ pc' = "seed"
    /\ UNCHANGED <<input, points_in_boundary, intermediate_chains,
                   finished_chains, num_steps_done, max_intermediate, max_steps,
                   ctrlc_pressed, chain, chain_place_dist, exit_cause,
                   constructed, pruned, discarded, cleaned, writes, popped>>

\* the initial chains, then ctrlc::set_handler
SeedChains ==
    /\ pc = "seed"
    /\ intermediate_chains' = Seeds(points_in_boundary, place_names)
    /\ constructed' = Chains(intermediate_chains')
    /\ pc' = "pop"
    /\ UNCHANGED <<input, points_in_boundary, place_names, finished_chains,
                   num_steps_done, max_intermediate, max_steps, ctrlc_pressed,
                   chain, chain_place_dist, exit_cause, pruned, discarded, cleaned, writes, popped>>

\* the Ctrl-C handler: r.store(true)
PressCtrlC ==
    /\ pc \in {"pop", "ctrlc", "extend", "archive", "retain_chains", "failsafe",
               "count", "flush"}
    /\ ~ctrlc_pressed
    /\ ctrlc_pressed' = TRUE
    /\ UNCHANGED <<input, points_in_boundary, place_names, intermediate_chains,
                   finished_chains, num_steps_done, max_intermediate, max_steps,
                   chain, chain_place_dist, pc, exit_cause, constructed,
                   pruned, discarded, cleaned, writes, popped>>

\* PopFirst reading the first entry without removing it
PopFirstKeepsEntry ==
    /\ pc = "pop"
    /\ IF intermediate_chains = {}
       THEN /\ pc' = "flush"
            /\ exit_cause' = "empty"
            /\ UNCHANGED <<chain, chain_place_dist, popped>>
       ELSE LET e == First(intermediate_chains)
            IN  /\ chain' = e[3]
                /\ chain_place_dist' = e[2]
                /\ popped' = popped \cup {e[3]}
                /\ pc' = "ctrlc"
                /\ UNCHANGED exit_cause
    /\ UNCHANGED <<input, points_in_boundary, place_names, intermediate_chains,
                   finished_chains, num_steps_done, max_intermediate, max_steps,
                   ctrlc_pressed, constructed, pruned, discarded, cleaned,
                   writes>>

\* match intermediate_chains.pop_first()
PopFirst ==
    /\ pc = "pop"
    /\ IF intermediate_chains = {}
       THEN /\ pc' = "flush"
            /\ exit_cause' = "empty"
            /\ UNCHANGED <<intermediate_chains, chain, chain_place_dist, popped>>
       ELSE LET e == First(intermediate_chains)
            IN  /\ intermediate_chains' = intermediate_chains \ {e}
                /\ chain' = e[3]
                /\ chain_place_dist' = e[2]
                /\ popped' = popped \cup {e[3]}
                /\ pc' = "ctrlc"
                /\ UNCHANGED exit_cause
    /\ UNCHANGED <<input, points_in_boundary, place_names, finished_chains,
                   num_steps_done, max_intermediate, max_steps, ctrlc_pressed,
                   constructed, pruned, discarded, cleaned, writes>>

\* CheckCtrlC never breaking out of the loop
CheckCtrlCIgnoresFlag ==
    /\ pc = "ctrlc"
    /\ pc' = "extend"
    /\ UNCHANGED <<input, points_in_boundary, place_names, intermediate_chains,
                   finished_chains, num_steps_done, max_intermediate, max_steps,
                   ctrlc_pressed, chain, chain_place_dist, exit_cause,
                   constructed, pruned, discarded, cleaned, writes, popped>>

\* if ctrlc_pressed.load() { break }
CheckCtrlC ==
    /\ pc = "ctrlc"
    /\ IF ctrlc_pressed
       THEN /\ pc' = "flush"
            /\ exit_cause' = "ctrlc"
            /\ chain' = <<>>
            /\ chain_place_dist' = 0
       ELSE /\ pc' = "extend"
            /\ UNCHANGED <<exit_cause, chain, chain_place_dist>>
    /\ UNCHANGED <<input, points_in_boundary, place_names, intermediate_chains,
                   finished_chains, num_steps_done, max_intermediate, max_steps,
                   ctrlc_pressed, constructed, pruned, discarded, cleaned, writes, popped>>

\* match place_names.get(last_boundary_name)
ExtendChain ==
    /\ pc = "extend"
    /\ IF chain[Len(chain)].boundary_name \notin DOMAIN place_names
       THEN /\ finished_chains' = KeepIfLonger(finished_chains, chain)
            /\ writes' = writes \cup
                  {<<"no_match", c>> : c \in Written(finished_chains, finished_chains')}
            /\ UNCHANGED <<intermediate_chains, constructed>>
       ELSE \E order \in Orders(Candidates(place_names, chain)) :
                LET result == CandidateLoop(chain, chain_place_dist, order,
                                            intermediate_chains, finished_chains)
                IN  /\ intermediate_chains' = result[1]
                    /\ constructed' =
                          constructed \cup Chains(result[1] \ intermediate_chains)
                    /\ finished_chains' = result[2]
                    /\ writes' = writes \cup
                          {<<"loop", c>> : c \in Written(finished_chains, finished_chains')}
    /\ chain' = <<>>
    /\ chain_place_dist' = 0
    /\ pc' = IF OverCapacity(intermediate_chains', max_intermediate)
             THEN "archive" ELSE "count"
    /\ UNCHANGED <<input, points_in_boundary, place_names, num_steps_done,
                   max_intermediate, max_steps, ctrlc_pressed, exit_cause,
                   pruned, discarded, cleaned, popped>>

\* memory clean up, step 1: save the intermediate chains that are the longest
CleanUpArchive ==
    /\ pc = "archive"
    /\ finished_chains' = Archive(intermediate_chains, finished_chains)
    /\ writes' = writes \cup
          {<<"clean_up", c>> : c \in Written(finished_chains, finished_chains')}
    /\ cleaned' = TRUE
    /\ pc' = "retain_chains"
    /\ UNCHANGED <<input, points_in_boundary, place_names, intermediate_chains,
                   num_steps_done, max_intermediate, max_steps, ctrlc_pressed,
                   chain, chain_place_dist, exit_cause, constructed, pruned, discarded, popped>>

\* memory clean up, step 2: intermediate_chains.retain
CleanUpRetain ==
    /\ pc = "retain_chains"
    /\ intermediate_chains' =
          {e \in intermediate_chains : Retained(finished_chains, e)}
    /\ pruned' = pruned \cup (intermediate_chains \ intermediate_chains')
    /\ pc' = "failsafe"
    /\ UNCHANGED <<input, points_in_boundary, place_names, finished_chains,
                   num_steps_done, max_intermediate, max_steps, ctrlc_pressed,
                   chain, chain_place_dist, exit_cause, constructed, discarded,
                   cleaned, writes, popped>>

\* memory clean up, step 3: "failsafe, just delete the lowest ones"
CleanUpFailsafe ==
    /\ pc = "failsafe"
    /\ intermediate_chains' = Failsafe(intermediate_chains, max_intermediate)
    /\ discarded' = discarded \cup (intermediate_chains \ intermediate_chains')
    /\ pc' = IF OverCapacity(intermediate_chains', max_intermediate)
             THEN "archive" ELSE "count"
    /\ UNCHANGED <<input, points_in_boundary, place_names, finished_chains,
                   num_steps_done, max_intermediate, max_steps, ctrlc_pressed,
                   chain, chain_place_dist, exit_cause, constructed, pruned,
                   cleaned, writes, popped>>

\* num_steps_done += 1; if num_steps_done >= 1e12 as usize { break }
CountStep ==
    /\ pc = "count"
    /\ num_steps_done' = num_steps_done + 1
    /\ IF CeilingReached(num_steps_done', max_steps)
       THEN pc' = "flush" /\ exit_cause' = "ceiling"
       ELSE pc' = "pop" /\ UNCHANGED exit_cause
    /\ UNCHANGED <<input, points_in_boundary, place_names, intermediate_chains,
                   finished_chains, max_intermediate, max_steps, ctrlc_pressed,
                   chain, chain_place_dist, constructed, pruned, discarded, cleaned, writes, popped>>

\* "Update the finished chains": intermediate_chains.into_iter()
UpdateFinished ==
    /\ pc = "flush"
    /\ finished_chains' = Flush(intermediate_chains, finished_chains)
    /\ writes' = writes \cup
          {<<"update", c>> : c \in Written(finished_chains, finished_chains')}
    /\ intermediate_chains' = {}
    /\ pc' = "done"
    /\ UNCHANGED <<input, points_in_boundary, place_names, num_steps_done,
                   max_intermediate, max_steps, ctrlc_pressed, chain,
                   chain_place_dist, exit_cause, constructed, pruned, discarded, cleaned, popped>>

Next ==
    \/ ReadRecords
    \/ RemovePlaces
    \/ GenerateNameLookup
    \/ SeedChains
    \/ PressCtrlC
    \/ PopFirst
    \/ CheckCtrlC
    \/ ExtendChain
    \/ CleanUpArchive
    \/ CleanUpRetain
    \/ CleanUpFailsafe
    \/ CountStep
    \/ UpdateFinished

Spec == Init /\ [][Next]_vars

\* the positions of main()
Positions ==
    {"read", "retain", "lookup", "seed", "pop", "ctrlc", "extend", "archive",
     "retain_chains", "failsafe", "count", "flush", "done"}

\* main() moves on from its position: every step of main() changes pc, and
\* the Ctrl-C handler, which runs on its own thread, never does
MainAdvances ==
    /\ pc # "done"
    /\ pc' \in Positions \ {pc}

\* main() is a sequential thread that keeps running until it returns, so it
\* does not stay at one position forever; nothing obliges the user to press
\* Ctrl-C
FairSpec == Spec /\ WF_pc(MainAdvances)

(***************************************************************************)
(* Properties.                                                             *)
(***************************************************************************)
Range(f) == {f[x] : x \in DOMAIN f}

Origin(c) == c[1]

\* the finished chains hold, under the origin of c, a chain as long as c
Covered(finished, c) ==
    Origin(c) \in DOMAIN finished /\ Len(finished[Origin(c)]) >= Len(c)

AllChains == Chains(intermediate_chains) \cup Range(finished_chains)

\* C1: once main() has left the loop and updated the finished chains, by
\* whichever break, every chain of more than one record that was ever
\* inserted into intermediate_chains is covered by the finished chain of its
\* origin (one chain per origin: finished_chains is a map).
C1_DoneCoversConstructed ==
    pc = "done" =>
        \A c \in constructed : Len(c) > 1 => Covered(finished_chains, c)

\* C2: every intermediate and every finished chain is name-linked: the
\* boundary name of each record is the place name of the next.
NameLinked(c) ==
    \A i \in 1..(Len(c) - 1) : c[i].boundary_name = c[i + 1].place_name

C2_NameLinked == \A c \in AllChains : NameLinked(c)

C2_Witness ==
    /\ \E c \in Chains(intermediate_chains) : Len(c) >= 2
    /\ \E c \in Range(finished_chains) : Len(c) >= 3

\* C3: no intermediate or finished chain holds two records with the same
\* place_id or the same boundary_id, and none is longer than the number of
\* distinct place ids of the records kept.
NoRepeatedId(c) ==
    \A i, j \in 1..Len(c) :
        i < j => /\ c[i].place_id # c[j].place_id
                 /\ c[i].boundary_id # c[j].boundary_id

C3_NoRepeatedId ==
    \A c \in AllChains :
        /\ NoRepeatedId(c)
        /\ Len(c) <= Cardinality(DOMAIN points_in_boundary)

\* the 3-cycle has been searched to the end and left a chain of length 3
C3_Witness ==
    /\ input = {AlphaInBeta, BetaInGamma, GammaInAlpha}
    /\ pc = "done"
    /\ exit_cause = "empty"
    /\ \E c \in Range(finished_chains) : Len(c) = 3
    /\ \E w \in writes : w[1] = "loop"

\* C4: in every step an origin keeps its finished chain, or gets a strictly
\* longer chain that starts with that origin; no entry is removed or shortened.
C4_LongestWins ==
    [][\A o \in DOMAIN finished_chains :
          /\ o \in DOMAIN finished_chains'
          /\ \/ finished_chains'[o] = finished_chains[o]
             \/ /\ Len(finished_chains'[o]) > Len(finished_chains[o])
                /\ Origin(finished_chains'[o]) = o]_vars

\* a finished chain has been replaced by a longer one of the same origin
C4_Witness ==
    \E w1, w2 \in writes :
        /\ Origin(w1[2]) = Origin(w2[2])
        /\ Len(w1[2]) < Len(w2[2])
        /\ finished_chains[Origin(w2[2])] = w2[2]

\* C5: the memory clean up never removes a one-record chain from the
\* intermediate chains, neither in its retain nor in its failsafe.
C5_SeedsNeverRemoved ==
    \A e \in pruned \cup discarded : Len(e[3]) # 1

\* C6: when an iteration has passed its memory clean up loop, and after
\* every failsafe, the intermediate chains number at most max_intermediate;
\* they exceed it only inside the clean up, or before the first clean up
\* and the first completed iteration (after seeding).
CleanUpPcs == {"archive", "retain_chains", "failsafe"}

C6_CapacityAfterCleanUp ==
    /\ [](pc = "count" =>
            Cardinality(intermediate_chains) <= max_intermediate)
    /\ [](Cardinality(intermediate_chains) > max_intermediate =>
            pc \in CleanUpPcs \/ (num_steps_done = 0 /\ ~cleaned))
    /\ [][pc = "failsafe" /\ pc' # "failsafe" =>
            Cardinality(intermediate_chains') <= max_intermediate]_vars

\* an iteration ends with a full set after a failsafe that discarded entries
C6_Witness ==
    /\ pc = "count"
    /\ discarded # {}
    /\ Cardinality(intermediate_chains) = max_intermediate

\* C7: every chain of more than one record that the clean up has removed,
\* by its retain or by its failsafe, is covered by the finished chain of its
\* origin from the moment of its removal on.
C7_RemovedAreSaved ==
    \A e \in pruned \cup discarded :
        Len(e[3]) > 1 => Covered(finished_chains, e[3])

\* the retain has just removed a chain of more than one record
C7_Witness ==
    /\ pc = "failsafe"
    /\ \E e \in pruned : Len(e[3]) > 1 /\ e \notin intermediate_chains

\* C8: the update after the loop leaves every intermediate chain of more
\* than one record covered by the finished chain of its origin, and inserts
\* no chain of one record: what it inserts are intermediate chains of more
\* than one record.
C8_UpdateKeepsLongChains ==
    [][pc = "flush" /\ pc' = "done" =>
          /\ \A c \in Chains(intermediate_chains) :
                Len(c) > 1 => Covered(finished_chains', c)
          /\ \A c \in Written(finished_chains, finished_chains') :
                Len(c) > 1 /\ c \in Chains(intermediate_chains)]_vars

\* a truncated run has ended and its update inserted a chain
C8_Witness ==
    /\ pc = "done"
    /\ exit_cause \in {"ctrlc", "ceiling"}
    /\ \E w \in writes : w[1] = "update"

\* C9: a run that ends on the empty set, without Ctrl-C and without a
\* memory clean up, leaves for every seeded record a finished chain as long
\* as the longest valid chain (name-linked, no repeated place or boundary
\* id) over the kept records that starts with it.
ValidExtensions(c, R) ==
    {r \in R : /\ r.place_name = c[Len(c)].boundary_name
               /\ \A i \in 1..Len(c) : /\ c[i].place_id # r.place_id
                                       /\ c[i].boundary_id # r.boundary_id}

Max(S) == CHOOSE x \in S : \A y \in S : y <= x

RECURSIVE LongestFrom(_, _)
LongestFrom(c, R) ==
    IF ValidExtensions(c, R) = {} THEN Len(c)
    ELSE Max({LongestFrom(Append(c, r), R) : r \in ValidExtensions(c, R)})

SeededRecords ==
    {r \in AllRecords(points_in_boundary) : r.boundary_name \in DOMAIN place_names}

C9_EmptyRunFindsLongest ==
    (pc = "done" /\ exit_cause = "empty" /\ ~ctrlc_pressed /\ ~cleaned) =>
        \A r \in SeededRecords :
            /\ r \in DOMAIN finished_chains
            /\ Len(finished_chains[r]) =
                  LongestFrom(<<r>>, AllRecords(points_in_boundary))

\* Alpha in Beta, Beta in Gamma gives the chain of length 2 from Alpha in Beta
C9_Witness ==
    /\ input = {AlphaInBeta, BetaInGamma}
    /\ pc = "done" /\ exit_cause = "empty" /\ ~ctrlc_pressed /\ ~cleaned
    /\ finished_chains = (AlphaInBeta :> <<AlphaInBeta, BetaInGamma>>)

\* C10: once the self-named places are removed, no row whose place_id has a
\* row with place name equal to boundary name is among the kept records, in
\* the name lookup, among the seeds or in any chain.
SelfNamedRows ==
    {r \in input : \E q \in input :
        q.place_id = r.place_id /\ q.place_name = q.boundary_name}

C10_SelfNamedExcluded ==
    pc \notin {"read", "retain"} =>
        /\ SelfNamedRows \cap AllRecords(points_in_boundary) = {}
        /\ SelfNamedRows \cap AllRecords(place_names) = {}
        /\ \A c \in AllChains \cup constructed :
              \A i \in 1..Len(c) : c[i] \notin SelfNamedRows

\* a search over rows that held a self-named place and a row of the same
\* place whose boundary names a place has ended with finished chains
C10_Witness ==
    /\ {EpsInEps, EpsInBeta, BetaInGamma} \subseteq input
    /\ pc = "done"
    /\ finished_chains # Empty

\* C14: every entry carries the key (-(chain length), -(sum of the place
\* distances of its consecutive records)), and the entry just popped is at
\* least as long as every entry left and, among those of its length, has the
\* greatest summed distance.
RECURSIVE SumDist(_)
SumDist(c) ==
    IF Len(c) < 2 THEN 0
    ELSE SumDist(SubSeq(c, 1, Len(c) - 1)) + place_dist(c[Len(c) - 1], c[Len(c)])

C14_PopTakesBest ==
    /\ \A e \in intermediate_chains :
          e[1] = -Len(e[3]) /\ e[2] = -SumDist(e[3])
    /\ pc = "ctrlc" =>
          /\ chain_place_dist = -SumDist(chain)
          /\ \A e \in intermediate_chains :
                /\ Len(chain) >= Len(e[3])
                /\ Len(chain) = Len(e[3]) => SumDist(chain) >= SumDist(e[3])

\* a chain of three records was popped ahead of an equally long one that
\* covers less distance
C14_Witness ==
    /\ pc = "ctrlc"
    /\ Len(chain) >= 3
    /\ \E e \in intermediate_chains :
          Len(e[3]) = Len(chain) /\ SumDist(e[3]) < SumDist(chain)

\* C15: the retain of the clean up removes exactly the entries of more than
\* one record that are more than RetentionMargin shorter than the finished
\* chain of their origin; every other entry stays.
TooShort(finished, e) ==
    /\ Len(e[3]) > 1
    /\ Origin(e[3]) \in DOMAIN finished
    /\ Len(finished[Origin(e[3])]) - Len(e[3]) > RetentionMargin

C15_RetainRemovesTooShort ==
    [][pc = "retain_chains" /\ pc' # "retain_chains" =>
          intermediate_chains' =
              {e \in intermediate_chains : ~TooShort(finished_chains, e)}]_vars

\* the retain has removed one entry and kept an entry of more than one
\* record that is exactly RetentionMargin shorter than its finished chain
C15_Witness ==
    /\ pc = "failsafe"
    /\ \E e \in pruned : e \notin intermediate_chains
    /\ \E e \in intermediate_chains :
          /\ Len(e[3]) > 1
          /\ Len(finished_chains[Origin(e[3])]) - Len(e[3]) = RetentionMargin

\* C16: the failsafe removes nothing from a set within the capacity and
\* otherwise cuts the set to exactly max_intermediate entries; every entry it
\* removes is ordered after, and is no longer than, every entry it keeps.
C16_FailsafeDropsWorst ==
    [][pc = "failsafe" /\ pc' # "failsafe" =>
          LET gone == intermediate_chains \ intermediate_chains'
          IN  /\ intermediate_chains' \subseteq intermediate_chains
              /\ Cardinality(intermediate_chains') =
                    Min(Cardinality(intermediate_chains), max_intermediate)
              /\ \A g \in gone : \A k \in intermediate_chains' :
                    EntryLess(k, g) /\ Len(k[3]) >= Len(g[3])]_vars

\* the failsafe has removed an entry of more than one record and kept one
C16_Witness ==
    /\ pc = "count"
    /\ intermediate_chains # {}
    /\ \E g \in discarded : Len(g[3]) > 1

\* C17: when the first iteration starts the intermediate chains are exactly
\* the one-record chains, with key (-1, 0), of the kept records whose
\* boundary name is a key of place_names; and no chain ever starts with a
\* record whose boundary name is not such a key.
C17_SeedsAreLookedUp ==
    /\ (pc = "pop" /\ num_steps_done = 0) =>
          /\ \A r \in SeededRecords : <<-1, 0, <<r>>>> \in intermediate_chains
          /\ \A e \in intermediate_chains :
                /\ e[1] = -1 /\ e[2] = 0 /\ Len(e[3]) = 1
                /\ e[3][1] \in SeededRecords
    /\ \A c \in AllChains \cup constructed :
          Origin(c).boundary_name \in DOMAIN place_names

\* seeding has passed over a kept record whose boundary names no place
C17_Witness ==
    /\ pc = "pop" /\ num_steps_done = 0
    /\ intermediate_chains # {}
    /\ \E r \in AllRecords(points_in_boundary) : r \notin SeededRecords

\* C18: num_steps_done never passes the ceiling; when it reaches it main()
\* is past the loop, by the ceiling break, with the intermediate chains
\* untouched by that break; and the run so ended leaves every chain of more
\* than one record it ever inserted covered by a finished chain.
C18_CeilingStops ==
    /\ [](num_steps_done <= max_steps)
    /\ [](num_steps_done = max_steps =>
            pc \in {"flush", "done"} /\ exit_cause = "ceiling")
    /\ [][pc = "count" /\ pc' = "flush" =>
            intermediate_chains' = intermediate_chains]_vars
    /\ []((pc = "done" /\ exit_cause = "ceiling") =>
            \A c \in constructed : Len(c) > 1 => Covered(finished_chains, c))

\* the ceiling stopped a run whose update then inserted a chain
C18_Witness ==
    /\ pc = "done"
    /\ exit_cause = "ceiling"
    /\ num_steps_done = max_steps
    /\ \E w \in writes : w[1] = "update"

\* C19: every finished chain is stored under its own first record.
C19_KeyedByFirstRecord ==
    \A o \in DOMAIN finished_chains : o = finished_chains[o][1]

\* finished chains written by the clean up, by a dead end and by the update
C19_Witness ==
    /\ pc = "done"
    /\ \E w \in writes : w[1] = "clean_up"
    /\ \E w \in writes : w[1] \in {"no_match", "loop"}
    /\ \E w \in writes : w[1] = "update"

\* C20: a chain that pop_first has returned, or that the clean up has
\* removed, is never among the intermediate chains again, so no chain is
\* popped twice; no two entries hold the same chain; and every entry inserted
\* after seeding is the chain just popped with one more record.
C20_PoppedOnce ==
    /\ [](popped \cap Chains(intermediate_chains) = {})
    /\ [](Chains(pruned \cup discarded) \cap Chains(intermediate_chains) = {})
    /\ [](\A e1, e2 \in intermediate_chains : e1[3] = e2[3] => e1 = e2)
    /\ [][pc = "pop" /\ pc' = "ctrlc" => chain' \notin popped]_vars
    /\ [][pc = "extend" =>
            \A e \in intermediate_chains' \ intermediate_chains :
                /\ Len(e[3]) = Len(chain) + 1
                /\ SubSeq(e[3], 1, Len(chain)) = chain]_vars

\* a run in which the clean up removed chains has popped an extended chain
C20_Witness ==
    /\ pc = "ctrlc"
    /\ Len(chain) >= 3
    /\ \E e \in pruned \cup discarded : Len(e[3]) > 1
    /\ Cardinality(popped) >= 4

\* C12: when Ctrl-C is never pressed and the step ceiling is out of reach,
\* the run ends because pop_first finds the intermediate chains empty, and
\* main() reaches its end.
C12_EndsOnEmpty ==
    (max_steps = DefaultCeiling) ~>
        (\/ ctrlc_pressed
         \/ /\ pc = "done"
            /\ exit_cause = "empty"
            /\ intermediate_chains = {}
            /\ num_steps_done < max_steps)

\* a run of more iterations than the small ceiling allows, through a memory
\* clean up, that ended on the empty set without Ctrl-C
C12_Witness ==
    /\ pc = "done"
    /\ exit_cause = "empty"
    /\ ~ctrlc_pressed
    /\ max_steps = DefaultCeiling
    /\ num_steps_done > MaxCeiling
    /\ cleaned

\* C13: ctrlc_pressed is read once per iteration, right after pop_first. An
\* iteration that starts with the flag set inserts no chain, runs no memory
\* clean up and is not counted: it leaves the loop at the check. The flag is
\* never cleared, the loop is never re-entered, and main() reaches its end.
C13_StopsAtNextPoll ==
    /\ [][ctrlc_pressed /\ pc \in {"pop", "ctrlc"} =>
            /\ pc' \in {pc, "ctrlc", "flush"}
            /\ intermediate_chains' \subseteq intermediate_chains
            /\ constructed' = constructed
            /\ pruned' = pruned /\ discarded' = discarded
            /\ cleaned' = cleaned
            /\ num_steps_done' = num_steps_done]_vars
    /\ [][ctrlc_pressed /\ pc = "ctrlc" /\ pc' # pc =>
            pc' = "flush" /\ exit_cause' = "ctrlc"]_vars
    /\ [][ctrlc_pressed => ctrlc_pressed']_vars
    /\ [][(pc = "flush" \/ pc = "done") => (pc' = "flush" \/ pc' = "done")]_vars
    /\ (ctrlc_pressed ~> pc = "done")

\* Ctrl-C arrived in the middle of an iteration that went through a memory
\* clean up; the next iteration left the loop with chains still unexplored
C13_Witness ==
    /\ pc = "flush"
    /\ exit_cause = "ctrlc"
    /\ cleaned
    /\ num_steps_done >= 2
    /\ intermediate_chains # {}

\* C11: with the same records, capacity and ceiling, the order in which the
\* HashMap yields the records at seeding and the order in which the name
\* lookup holds the candidates of a name change neither the intermediate
\* chains nor the finished chains: every order of the seeding loop gives
\* the seeded set, and every order of the candidate loop gives the same
\* intermediate and finished chains, also after a memory clean up. Every
\* other step of main() reads the BTreeSet in its own order, so two runs
\* without Ctrl-C end with the same finished chains.
C11_OrderIndependent ==
    /\ [](pc = "extend" /\ chain[Len(chain)].boundary_name \in DOMAIN place_names =>
            \A o1, o2 \in Orders(Candidates(place_names, chain)) :
                CandidateLoop(chain, chain_place_dist, o1,
                              intermediate_chains, finished_chains)
                = CandidateLoop(chain, chain_place_dist, o2,
                                intermediate_chains, finished_chains))
    /\ [][pc = "seed" /\ pc' # pc =>
            \A o \in IterationOrders(AllRecords(points_in_boundary)) :
                SeedLoop(o, place_names, {}) = intermediate_chains']_vars

\* after a memory clean up, a popped chain has two candidates of which one
\* extends it and the other would be a loop
C11_Witness ==
    /\ pc = "extend"
    /\ cleaned
    /\ ~ctrlc_pressed
    /\ chain[Len(chain)].boundary_name \in DOMAIN place_names
    /\ \E r1, r2 \in Candidates(place_names, chain) :
          ~InChain(chain, r1) /\ InChain(chain, r2)

====
